---- MODULE Spec2Model ----
(***************************************************************************)
(* A model of src/src/index.ts: the rule engine (buildRuleSet), the        *)
(* orchestrator (getMetadata), the built-in rule table (metadataRuleSets)  *)
(* and the helpers (makeUrlAbsolute, parseUrl, getProvider).               *)
(*                                                                         *)
(* JavaScript strings are sequences of one-character strings, so that      *)
(* trimming, splitting, regular-expression replacement and URL resolution  *)
(* are computed character by character, as the code computes them.         *)
(***************************************************************************)
EXTENDS Integers, Sequences, FiniteSets, TLC

\* ------------------------------------------------------------------------
\* Bounds of the model.
\* ------------------------------------------------------------------------
\* Longest document (number of elements) drawn as an input.
MaxElems == 2
\* Longest host (number of dot-separated labels) given to getProvider.
MaxLabels == 4

\* ------------------------------------------------------------------------
\* String primitives of JavaScript used by the code.
\* ------------------------------------------------------------------------
Lowers == {"a","b","c","d","e","f","g","h","i","j","k","l","m",
           "n","o","p","q","r","s","t","u","v","w","x","y","z"}
Uppers == {"A","B","C","D","E","F","G","H","I","J","K","L","M",
           "N","O","P","Q","R","S","T","U","V","W","X","Y","Z"}
Digits == {"0","1","2","3","4","5","6","7","8","9"}
\* The character class [a-zA-Z0-9] of the regular expression in getProvider.
Alnum == Lowers \cup Uppers \cup Digits
\* The characters String.prototype.trim removes (those the inputs use).
WhiteSpace == {" ", "\t", "\n"}

\* s.startsWith(pat, at i) for 1-based i.
MatchAt(s, pat, i) ==
    /\ i >= 1
    /\ i + Len(pat) - 1 <= Len(s)
    /\ SubSeq(s, i, i + Len(pat) - 1) = pat

\* 1-based s.indexOf(pat); 0 when pat does not occur.
IndexOf(s, pat) ==
    LET hits == {i \in 1..Len(s) : MatchAt(s, pat, i)}
    IN IF hits = {} THEN 0 ELSE CHOOSE i \in hits : \A j \in hits : i <= j

\* s.replace(pat, rep) with a string pattern: the first occurrence only.
ReplaceFirst(s, pat, rep) ==
    LET i == IndexOf(s, pat)
    IN IF i = 0 THEN s
       ELSE SubSeq(s, 1, i - 1) \o rep \o SubSeq(s, i + Len(pat), Len(s))

\* s.split(sep) for a one-character separator: always at least one part.
RECURSIVE Split(_, _)
Split(s, sep) ==
    LET i == IndexOf(s, <<sep>>)
    IN IF i = 0 THEN <<s>>
       ELSE <<SubSeq(s, 1, i - 1)>> \o Split(SubSeq(s, i + 1, Len(s)), sep)

\* parts.join(sep).
RECURSIVE Join(_, _)
Join(parts, sep) ==
    IF Len(parts) = 0 THEN <<>>
    ELSE IF Len(parts) = 1 THEN parts[1]
    ELSE parts[1] \o sep \o Join(Tail(parts), sep)

\* s.trim().
RECURSIVE TrimLeft(_)
TrimLeft(s) ==
    IF Len(s) > 0 /\ s[1] \in WhiteSpace THEN TrimLeft(Tail(s)) ELSE s

RECURSIVE TrimRight(_)
TrimRight(s) ==
    IF Len(s) > 0 /\ s[Len(s)] \in WhiteSpace
    THEN TrimRight(SubSeq(s, 1, Len(s) - 1)) ELSE s

Trim(s) == TrimRight(TrimLeft(s))

\* ------------------------------------------------------------------------
\* getProvider (lines 13-20).
\* ------------------------------------------------------------------------
\* End of the match of /www[a-zA-Z0-9]*\./ starting at p, or 0: after "www"
\* the greedy class runs to the first non-alphanumeric character, which has
\* to be the dot.
WwwMatchEnd(s, p) ==
    IF ~MatchAt(s, <<"w","w","w">>, p) THEN 0
    ELSE LET stops == {q \in (p + 3)..Len(s) : s[q] \notin Alnum}
         IN IF stops = {} THEN 0
            ELSE LET q == CHOOSE x \in stops : \A y \in stops : x <= y
                 IN IF s[q] = "." THEN q ELSE 0

\* host.replace(/www[a-zA-Z0-9]*\./, ''): the leftmost match, anywhere in the
\* string (the expression is not anchored), is removed.
ReplaceWww(s) ==
    LET starts == {p \in 1..Len(s) : WwwMatchEnd(s, p) # 0}
    IN IF starts = {} THEN s
       ELSE LET p == CHOOSE x \in starts : \A y \in starts : x <= y
            IN SubSeq(s, 1, p - 1) \o SubSeq(s, WwwMatchEnd(s, p) + 1, Len(s))

\* array.slice(0, -1).
DropLast(parts) == SubSeq(parts, 1, Len(parts) - 1)

getProvider(host) ==
    Join(DropLast(Split(ReplaceFirst(ReplaceWww(host), <<".","c","o",".">>, <<".">>), ".")), <<" ">>)

\* ------------------------------------------------------------------------
\* JavaScript values: undefined, null, a string, an array of strings.
\* v holds the string as its one item, or the items of the array.
\* ------------------------------------------------------------------------
Undefined == [k |-> "undefined", v |-> <<>>]
Null == [k |-> "null", v |-> <<>>]
Str(s) == [k |-> "string", v |-> <<s>>]
Arr(items) == [k |-> "array", v |-> items]
IsStr(x) == x.k = "string"
StrOf(x) == x.v[1]

\* JavaScript truthiness of a value: undefined, null and "" are falsy, an
\* array (even an empty one) is truthy.
Truthy(x) == x.k = "array" \/ (x.k = "string" /\ x.v[1] # <<>>)

\* A scorer's result: a number, or undefined.
NoScore == [k |-> "undefined", n |-> 0]
Num(n) == [k |-> "number", n |-> n]

\* ------------------------------------------------------------------------
\* new URL(relative, base) for the URLs the inputs use: scheme://host/path,
\* absolute paths and path-relative references (no query, fragment, dot
\* segments or scheme-relative references).
\* ------------------------------------------------------------------------
NoUrl == [ok |-> FALSE, scheme |-> <<>>, host |-> <<>>, path |-> <<>>]

\* The parse of an absolute URL string.
ParseAbsolute(raw) ==
    LET s == Trim(raw)
        i == IndexOf(s, <<":","/","/">>)
    IN IF i <= 1 THEN NoUrl
       ELSE LET scheme == SubSeq(s, 1, i - 1)
                rest == SubSeq(s, i + 3, Len(s))
                j == IndexOf(rest, <<"/">>)
                host == IF j = 0 THEN rest ELSE SubSeq(rest, 1, j - 1)
                path == IF j = 0 THEN <<"/">> ELSE SubSeq(rest, j, Len(rest))
            IN IF (\A n \in 1..Len(scheme) : scheme[n] \in Lowers \cup Uppers)
                  /\ Len(host) > 0
                  /\ \A n \in 1..Len(host) : host[n] \in Alnum \cup {".", "-"}
               THEN [ok |-> TRUE, scheme |-> scheme, host |-> host, path |-> path]
               ELSE NoUrl

\* The directory of a path: up to and including its last "/".
RECURSIVE DirName(_)
DirName(path) ==
    IF Len(path) = 0 \/ path[Len(path)] = "/" THEN path
    ELSE DirName(SubSeq(path, 1, Len(path) - 1))

\* new URL(relative, base): base is a value (undefined when not given).
NewUrl(relative, base) ==
    LET rel == Trim(relative)
        pb == IF IsStr(base) THEN ParseAbsolute(StrOf(base)) ELSE NoUrl
        pr == ParseAbsolute(rel)
    IN IF IsStr(base) /\ ~pb.ok THEN NoUrl
       ELSE IF pr.ok THEN pr
       ELSE IF ~IsStr(base) THEN NoUrl
       ELSE IF rel = <<>> THEN pb
       ELSE IF rel[1] = "/" THEN [pb EXCEPT !.path = rel]
       ELSE [pb EXCEPT !.path = DirName(pb.path) \o rel]

\* url.href.
Href(u) == u.scheme \o <<":","/","/">> \o u.host \o u.path

\* String(x) as the URL constructor applies it to its argument.
StringOf(x) ==
    IF IsStr(x) THEN StrOf(x)
    ELSE IF x.k = "undefined" THEN <<"u","n","d","e","f","i","n","e","d">>
    ELSE IF x.k = "null" THEN <<"n","u","l","l">>
    ELSE Join(x.v, <<",">>)

\* The result of a call that may throw: ok = FALSE is a thrown TypeError.
Threw == [ok |-> FALSE, val |-> Undefined]
Ret(x) == [ok |-> TRUE, val |-> x]

\* new URL(relative).href: the base left out of the call.
makeUrlAbsoluteNoBase(base, relative) ==
    LET u == NewUrl(StringOf(relative), Undefined)
    IN IF u.ok THEN Ret(Str(Href(u))) ELSE Threw

\* makeUrlAbsolute (lines 5-7).
makeUrlAbsolute(base, relative) ==
    LET u == NewUrl(StringOf(relative), base)
    IN IF u.ok THEN Ret(Str(Href(u))) ELSE Threw

\* parseUrl (lines 9-11).
parseUrl(url) ==
    LET u == NewUrl(StringOf(url), Undefined)
    IN IF u.ok THEN Ret(Str(u.host)) ELSE Threw

\* ------------------------------------------------------------------------
\* The document: a sequence of elements in document order.
\* ------------------------------------------------------------------------
AttrNames == {"rel", "property", "name", "class", "content", "href", "sizes", "lang"}

\* <tag a1="v1" a2="v2" a3="v3">text</tag>; an attribute named "" is none.
El(tag, a1, v1, a2, v2, a3, v3, text) ==
    [tag |-> tag,
     attrs |-> [a \in AttrNames |->
                  IF a = a1 THEN v1 ELSE IF a = a2 THEN v2
                  ELSE IF a = a3 THEN v3 ELSE Null],
     text |-> text]

\* element.getAttribute(name): null for an attribute the element lacks.
getAttribute(el, name) == IF name \in AttrNames THEN el.attrs[name] ELSE Null

UpperSeq == <<"A","B","C","D","E","F","G","H","I","J","K","L","M","N","O","P","Q","R","S","T","U","V","W","X","Y","Z">>
LowerSeq == <<"a","b","c","d","e","f","g","h","i","j","k","l","m","n","o","p","q","r","s","t","u","v","w","x","y","z">>
LowerChar(c) ==
    IF c \in Uppers THEN LowerSeq[CHOOSE i \in 1..26 : UpperSeq[i] = c] ELSE c
LowerCase(s) == [i \in 1..Len(s) |-> LowerChar(s[i])]

\* A selector: tag, tag[attr], tag[attr="val"], tag[attr="val" i], tag.val.
Sel(tag, op, attr, val, ci) ==
    [tag |-> tag, op |-> op, attr |-> attr, val |-> val, ci |-> ci]

\* element.matches(selector).
Matches(el, q) ==
    /\ el.tag = q.tag
    /\ CASE q.op = "any" -> TRUE
         [] q.op = "has" -> IsStr(el.attrs[q.attr])
         [] q.op = "eq" ->
              /\ IsStr(el.attrs[q.attr])
              /\ IF q.ci
                 THEN LowerCase(StrOf(el.attrs[q.attr])) = LowerCase(q.val)
                 ELSE StrOf(el.attrs[q.attr]) = q.val
         [] q.op = "class" ->
              /\ IsStr(el.attrs["class"])
              /\ \E i \in 1..Len(Split(StrOf(el.attrs["class"]), " ")) :
                     Split(StrOf(el.attrs["class"]), " ")[i] = q.val

\* Array.from(doc.querySelectorAll(query)) (line 30): the matching elements
\* in document order.
RECURSIVE querySelectorAll(_, _)
querySelectorAll(d, q) ==
    IF d = <<>> THEN <<>>
    ELSE (IF Matches(d[1], q) THEN <<d[1]>> ELSE <<>>) \o querySelectorAll(Tail(d), q)

\* ------------------------------------------------------------------------
\* Rule sets (type RuleSets, lines 74-81).  The functions of a rule set are
\* named by kind and run by the operators below.
\* ------------------------------------------------------------------------
\* (element) => element.getAttribute(name)
Attr(name) == [kind |-> "attr", name |-> name]
\* (element) => element.text
Text == [kind |-> "text", name |-> ""]

\* handler(element) (line 48).
RunHandler(h, el) ==
    IF h.kind = "attr" THEN getAttribute(el, h.name) ELSE Str(el.text)

Rule(q, h) == [query |-> q, handler |-> h]

RuleSet(key, rules, scorers, default, processors) ==
    [key |-> key, rules |-> rules, scorers |-> scorers,
     default |-> default, processors |-> processors]

\* Number(digits) for a run of decimal digits.
DigitSeq == <<"0","1","2","3","4","5","6","7","8","9">>
DigitValue(c) == (CHOOSE i \in 1..10 : DigitSeq[i] = c) - 1
RECURSIVE NumberOf(_)
NumberOf(ds) ==
    IF ds = <<>> THEN 0
    ELSE 10 * NumberOf(SubSeq(ds, 1, Len(ds) - 1)) + DigitValue(ds[Len(ds)])

\* s.match(/\d+/g)[0]: the first maximal run of digits, <<>> when none.
FirstDigits(s) ==
    LET ds == {i \in 1..Len(s) : s[i] \in Digits}
    IN IF ds = {} THEN <<>>
       ELSE LET a == CHOOSE i \in ds : \A j \in ds : i <= j
                ends == {b \in a..Len(s) : \A n \in a..b : s[n] \in Digits}
                z == CHOOSE b \in ends : \A c \in ends : c <= b
            IN SubSeq(s, a, z)

\* The icon scorer reading the attribute "size" in place of "sizes".
iconScorerSizeAttr(el, score) ==
    LET sizes == getAttribute(el, "size")
    IN IF Truthy(sizes) /\ FirstDigits(StrOf(sizes)) # <<>>
       THEN Num(NumberOf(FirstDigits(StrOf(sizes))))
       ELSE NoScore

\* The scorer of the icon field (lines 105-114).
iconScorer(el, score) ==
    LET sizes == getAttribute(el, "sizes")
    IN IF Truthy(sizes) /\ FirstDigits(StrOf(sizes)) # <<>>
       THEN Num(NumberOf(FirstDigits(StrOf(sizes))))
       ELSE NoScore

\* A caller's scorer, (element, score) => score - 2, of the declared type
\* (element, score) => number | undefined (line 77).
penaltyScorer(el, score) == Num(score - 2)

\* scorer(element, score) (line 38).
RunScorer(kind, el, score) ==
    IF kind = "sizes" THEN iconScorer(el, score) ELSE penaltyScorer(el, score)

\* if (newScore) (line 40): undefined and 0 are falsy.
Replaces(newScore) == newScore.k = "number" /\ newScore.n # 0

\* Lines 36-44: the scorers in declared order, each given the score so far.
RECURSIVE ApplyScorers(_, _, _)
ApplyScorers(scorers, el, score) ==
    IF scorers = <<>> THEN score
    ELSE LET newScore == RunScorer(Head(scorers), el, score)
         IN ApplyScorers(Tail(scorers), el,
                         IF Replaces(newScore) THEN newScore.n ELSE score)

\* let score = currRule + 1: a base score rising with the rule index.
BaseScoreRising(n, i) == i

\* let score = ruleSet.rules.length - currRule (line 34); currRule = i - 1.
BaseScore(n, i) == n - (i - 1)

\* score >= maxScore in place of line 46.
BeatsOrTies(score, best) == score >= best

\* score > maxScore (line 46).
Beats(score, best) == score > best

\* ruleSet.defaultValue(context) (line 55) for the default functions of
\* lines 116, 177 and 187.
RunDefault(kind, ctx) ==
    CASE kind = "favicon" -> Ret(Str(<<"f","a","v","i","c","o","n",".","i","c","o">>))
      [] kind = "url" -> Ret(ctx.url)
      [] kind = "provider" ->
           LET h == parseUrl(ctx.url)
           IN IF h.ok THEN Ret(Str(getProvider(StrOf(h.val)))) ELSE Threw

\* processor(maxValue, context) (line 61) for the processors of lines 118,
\* 132, 141, 161 and 179; split on a value that is not a string throws.
RunProcessor(kind, value, ctx) ==
    CASE kind = "absolute" -> makeUrlAbsolute(ctx.url, value)
      [] kind = "keywords" ->
           IF IsStr(value)
           THEN LET parts == Split(StrOf(value), ",")
                IN Ret(Arr([i \in 1..Len(parts) |-> Trim(parts[i])]))
           ELSE Threw
      [] kind = "language" ->
           IF IsStr(value) THEN Ret(Str(Split(StrOf(value), "-")[1])) ELSE Threw

Meta(attr, val, ci) == Sel("meta", "eq", attr, val, ci)
LinkRel(val, ci) == Sel("link", "eq", "rel", val, ci)

\* metadataRuleSets (lines 83-189), in declaration order.
metadataRuleSets == <<
    RuleSet("description",
        << Rule(Meta("property", <<"o","g",":","d","e","s","c","r","i","p","t","i","o","n">>, FALSE), Attr("content")),
           Rule(Meta("name", <<"d","e","s","c","r","i","p","t","i","o","n">>, TRUE), Attr("content")) >>,
        <<>>, "none", <<>>),
    RuleSet("icon",
        << Rule(LinkRel(<<"a","p","p","l","e","-","t","o","u","c","h","-","i","c","o","n">>, FALSE), Attr("href")),
           Rule(LinkRel(<<"a","p","p","l","e","-","t","o","u","c","h","-","i","c","o","n","-","p","r","e","c","o","m","p","o","s","e","d">>, FALSE), Attr("href")),
           Rule(LinkRel(<<"i","c","o","n">>, TRUE), Attr("href")),
           Rule(LinkRel(<<"f","l","u","i","d","-","i","c","o","n">>, FALSE), Attr("href")),
           Rule(LinkRel(<<"s","h","o","r","t","c","u","t"," ","i","c","o","n">>, FALSE), Attr("href")),
           Rule(LinkRel(<<"S","h","o","r","t","c","u","t"," ","I","c","o","n">>, FALSE), Attr("href")),
           Rule(LinkRel(<<"m","a","s","k","-","i","c","o","n">>, FALSE), Attr("href")) >>,
        <<"sizes">>, "favicon", <<"absolute">>),
    RuleSet("image",
        << Rule(Meta("property", <<"o","g",":","i","m","a","g","e",":","s","e","c","u","r","e","_","u","r","l">>, FALSE), Attr("content")),
           Rule(Meta("property", <<"o","g",":","i","m","a","g","e",":","u","r","l">>, FALSE), Attr("content")),
           Rule(Meta("property", <<"o","g",":","i","m","a","g","e">>, FALSE), Attr("content")),
           Rule(Meta("name", <<"t","w","i","t","t","e","r",":","i","m","a","g","e">>, FALSE), Attr("content")),
           Rule(Meta("property", <<"t","w","i","t","t","e","r",":","i","m","a","g","e">>, FALSE), Attr("content")),
           Rule(Meta("name", <<"t","h","u","m","b","n","a","i","l">>, FALSE), Attr("content")) >>,
        <<>>, "none", <<"absolute">>),
    RuleSet("keywords",
        << Rule(Meta("name", <<"k","e","y","w","o","r","d","s">>, TRUE), Attr("content")) >>,
        <<>>, "none", <<"keywords">>),
    RuleSet("title",
        << Rule(Meta("property", <<"o","g",":","t","i","t","l","e">>, FALSE), Attr("content")),
           Rule(Meta("name", <<"t","w","i","t","t","e","r",":","t","i","t","l","e">>, FALSE), Attr("content")),
           Rule(Meta("property", <<"t","w","i","t","t","e","r",":","t","i","t","l","e">>, FALSE), Attr("content")),
           Rule(Meta("name", <<"h","d","l">>, FALSE), Attr("content")),
           Rule(Sel("title", "any", "", <<>>, FALSE), Text) >>,
        <<>>, "none", <<>>),
    RuleSet("language",
        << Rule(Sel("html", "has", "lang", <<>>, FALSE), Attr("lang")),
           Rule(Meta("name", <<"l","a","n","g","u","a","g","e">>, TRUE), Attr("content")) >>,
        <<>>, "none", <<"language">>),
    RuleSet("type",
        << Rule(Meta("property", <<"o","g",":","t","y","p","e">>, FALSE), Attr("content")) >>,
        <<>>, "none", <<>>),
    RuleSet("url",
        << Rule(Sel("a", "class", "", <<"a","m","p","-","c","a","n","u","r","l">>, FALSE), Attr("href")),
           Rule(LinkRel(<<"c","a","n","o","n","i","c","a","l">>, FALSE), Attr("href")),
           Rule(Meta("property", <<"o","g",":","u","r","l">>, FALSE), Attr("content")) >>,
        <<>>, "url", <<"absolute">>),
    RuleSet("provider",
        << Rule(Meta("property", <<"o","g",":","s","i","t","e","_","n","a","m","e">>, FALSE), Attr("content")) >>,
        <<>>, "provider", <<>>) >>

\* ------------------------------------------------------------------------
\* Inputs: documents, locations, custom rule tables, hosts.
\* ------------------------------------------------------------------------
Link(rel, sizes, href) == El("link", "rel", Str(rel), "sizes", sizes, "href", href, <<>>)
MetaEl(attr, val, content, sizes) ==
    El("meta", attr, Str(val), "content", content, "sizes", sizes, <<>>)

\* Elements the built-in table's selectors match.
BuiltinPool == <<
    Link(<<"i","c","o","n">>, Str(<<"1","6","x","1","6">>), Str(<<"/","s",".","p","n","g">>)),
    Link(<<"i","c","o","n">>, Str(<<"3","2","x","3","2">>), Str(<<"/","l",".","p","n","g">>)),
    Link(<<"i","c","o","n">>, Str(<<"3","2","x","3","2">>), Null),
    Link(<<"I","c","o","n">>, Str(<<"0","x","0">>), Str(<<"z",".","p","n","g">>)),
    MetaEl("property", <<"o","g",":","t","i","t","l","e">>, Str(<<" "," ","F","o","o"," ">>), Null),
    El("title", "", Null, "", Null, "", Null, <<"B","a","r">>),
    MetaEl("name", <<"K","e","y","w","o","r","d","s">>, Str(<<"a",","," ","b",",","c">>), Null),
    Link(<<"c","a","n","o","n","i","c","a","l">>, Null, Str(<<"/","p">>)) >>

\* Elements the custom rule sets' selectors (meta[name="x"], meta[name="y"])
\* match.
CustomPool == <<
    MetaEl("name", <<"x">>, Null, Null),
    MetaEl("name", <<"x">>, Str(<<>>), Null),
    MetaEl("name", <<"x">>, Str(<<" ","a","-","b"," ">>), Null),
    MetaEl("name", <<"x">>, Str(<<"c">>), Null),
    MetaEl("name", <<"x">>, Str(<<"c">>), Str(<<"3","x","3">>)),
    MetaEl("name", <<"y">>, Str(<<"d">>), Null),
    MetaEl("name", <<"y">>, Str(<<"d">>), Str(<<"3","x","3">>)),
    MetaEl("name", <<"y">>, Null, Str(<<"9","x","9">>)) >>

\* A document is a sequence of element ids: 1..Len(BuiltinPool) name the
\* built-in pool, the ids above it the custom pool.
Element(id) ==
    IF id <= Len(BuiltinPool) THEN BuiltinPool[id]
    ELSE CustomPool[id - Len(BuiltinPool)]
BuiltinIds == 1..Len(BuiltinPool)
CustomIds == (Len(BuiltinPool) + 1)..(Len(BuiltinPool) + Len(CustomPool))

SeqsUpTo(S, n) == UNION {[1..m -> S] : m \in 0..n}

\* The elements of a document.
Elements(d) == [i \in 1..Len(d) |-> Element(d[i])]

\* location: missing altogether, or an object with href (possibly undefined).
NoLocation == [present |-> FALSE, href |-> Undefined]
Loc(href) == [present |-> TRUE, href |-> href]
GoodUrl == <<"h","t","t","p","s",":","/","/","a",".","c","o","m","/","x","/","y">>
Locations == {NoLocation, Loc(Undefined), Loc(Str(<<>>)),
              Loc(Str(GoodUrl)), Loc(Str(<<"h","t","t","p","s",":","/","/","w","w","w",".","b",".","c","o",".","u","k">>))}
CustomLocations == {NoLocation, Loc(Str(<<>>)), Loc(Str(GoodUrl))}

\* Custom rule sets (a caller's customRuleSets): two rules over
\* meta[name="x"] and meta[name="y"], with scorers, default and processors.
CustomRules ==
    << Rule(Meta("name", <<"x">>, FALSE), Attr("content")),
       Rule(Meta("name", <<"y">>, FALSE), Attr("content")) >>
ScorerLists == { <<>>, <<"sizes">>, <<"penalty">>, <<"sizes", "penalty">>,
                 <<"penalty", "sizes">>, <<"penalty", "penalty">> }
CustomRuleSets(key) ==
    {RuleSet(key, CustomRules, s, "none", <<>>) : s \in ScorerLists}
    \cup {RuleSet(key, CustomRules, s, "url", <<"language", "keywords">>) : s \in ScorerLists}
    \cup {RuleSet(key, CustomRules, <<>>, "none", <<"keywords", "language">>)}

\* Tables of one field, and a table of two fields in both key orders.
TwoFields ==
    << RuleSet("f", CustomRules, <<"sizes">>, "none", <<>>),
       RuleSet("g", CustomRules, <<>>, "url", <<"language">>) >>
CustomTables ==
    {<<rs>> : rs \in CustomRuleSets("f")}
    \cup {TwoFields, <<TwoFields[2], TwoFields[1]>>}

\* customRuleSets: not given (undefined), or a table.
NoTable == [given |-> FALSE, table |-> <<>>]
Table(t) == [given |-> TRUE, table |-> t]

\* Hosts given to getProvider: up to MaxLabels labels joined by dots.
LabelPool == { <<"w","w","w">>, <<"w","w","w","2">>, <<"a","w","w","w">>, <<"c","o">>, <<"e","x","a","m","p","l","e">>, <<"b","l","o","g">>, <<"c","o","m">>, <<"u","k">> }
Hosts == UNION {[1..m -> LabelPool] : m \in 1..MaxLabels}

\* ------------------------------------------------------------------------
\* The state.
\* ------------------------------------------------------------------------
VARIABLES
    doc,             \* getMetadata's doc: element ids in document order
    location,        \* getMetadata's location
    customRuleSets,  \* getMetadata's customRuleSets
    pc,              \* the position in the code
    context,         \* line 193
    metadata,        \* line 192: <<key, value>> entries in insertion order
    fieldIdx,        \* position in Object.keys(ruleSets) (line 199)
    currRule,        \* line 27, 1-based
    elemIdx,         \* position in elements (line 33)
    score,           \* line 34: the score of the last candidate
    maxScore,        \* line 24
    maxValue,        \* line 25
    selected,        \* maxValue when the rule loop ended (line 52)
    defaulted,       \* whether line 55 ran
    calls,           \* the processor calls of line 61 of the current field
    labels,          \* the host given to getProvider, as labels
    provider         \* what getProvider returned

vars == <<doc, location, customRuleSets, pc, context, metadata, fieldIdx,
          currRule, elemIdx, score, maxScore, maxValue, selected, defaulted,
          calls, labels, provider>>

engine == <<currRule, elemIdx, score, maxScore, maxValue, selected, defaulted, calls>>
inputs == <<doc, location, customRuleSets, labels, provider>>

\* const ruleSets = customRuleSets || metadataRuleSets (line 197).
RuleSetsInUse ==
    IF customRuleSets.given THEN customRuleSets.table ELSE metadataRuleSets

\* ruleSets[ruleSetKey] (line 200) of the field being evaluated.
CurrentRuleSet == RuleSetsInUse[fieldIdx]
CurrentRule == CurrentRuleSet.rules[currRule]
\* elements (line 30) of the rule being evaluated.
CurrentElements == querySelectorAll(Elements(doc), CurrentRule.query)
CurrentElement == CurrentElements[elemIdx]

Idle ==
    /\ context = [url |-> Undefined]
    /\ metadata = <<>>
    /\ fieldIdx = 0
    /\ currRule = 0
    /\ elemIdx = 0
    /\ score = 0
    /\ maxScore = 0
    /\ maxValue = Undefined
    /\ selected = Undefined
    /\ defaulted = FALSE
    /\ calls = <<>>

\* A call getMetadata(doc, location, customRuleSets) about to run.
Init ==
    /\ \/ /\ customRuleSets = NoTable
          /\ doc \in SeqsUpTo(BuiltinIds, MaxElems)
          /\ location \in Locations
       \/ /\ customRuleSets \in {Table(t) : t \in CustomTables}
          /\ doc \in SeqsUpTo(CustomIds, MaxElems)
          /\ location \in CustomLocations
    /\ pc = "start"
    /\ labels = <<>>
    /\ provider = <<>>
    /\ Idle

\* ------------------------------------------------------------------------
\* getMetadata (lines 191-207) and the evaluator of buildRuleSet (23-71).
\* ------------------------------------------------------------------------
\* Lines 192-197.  location.href of a missing location throws.
Start ==
    /\ pc = "start"
    /\ IF ~location.present
       THEN /\ pc' = "threw"
            /\ UNCHANGED <<context, metadata, fieldIdx>>
       ELSE /\ context' = [url |-> location.href]
            /\ metadata' = <<>>
            /\ fieldIdx' = 1
            /\ pc' = IF Len(RuleSetsInUse) = 0 THEN "return" ELSE "field"
    /\ UNCHANGED <<engine, inputs>>

\* let maxValue; (line 25) keeping the value of the field before.
StaleMaxValue(old) == old

\* let maxValue; (line 25).
FreshMaxValue(old) == Undefined

\* Lines 199-201 and 24-27: the evaluator of the next key is built and
\* called.
BeginField ==
    /\ pc = "field"
    /\ maxScore' = 0
    /\ maxValue' = FreshMaxValue(maxValue)
    /\ currRule' = 1
    /\ elemIdx' = 0
    /\ score' = 0
    /\ selected' = Undefined
    /\ defaulted' = FALSE
    /\ calls' = <<>>
    /\ pc' = "rule"
    /\ UNCHANGED <<context, metadata, fieldIdx, inputs>>

\* Lines 27-32: the loop test, the query, and the test of elements.length.
QueryRule ==
    /\ pc = "rule"
    /\ IF currRule > Len(CurrentRuleSet.rules)
       THEN /\ pc' = "default"
            /\ UNCHANGED <<currRule, elemIdx>>
       ELSE IF Len(CurrentElements) = 0
       THEN /\ currRule' = currRule + 1
            /\ UNCHANGED <<pc, elemIdx>>
       ELSE /\ elemIdx' = 1
            /\ pc' = "element"
            /\ UNCHANGED currRule
    /\ UNCHANGED <<score, maxScore, maxValue, selected, defaulted, calls>>
    /\ UNCHANGED <<context, metadata, fieldIdx, inputs>>

\* Lines 33-50 for one element.
ScoreElement ==
    /\ pc = "element"
    /\ LET s == ApplyScorers(CurrentRuleSet.scorers, CurrentElement,
                             BaseScore(Len(CurrentRuleSet.rules), currRule))
       IN /\ score' = s
          /\ IF Beats(s, maxScore)
             THEN /\ maxScore' = s
                  /\ maxValue' = RunHandler(CurrentRule.handler, CurrentElement)
             ELSE UNCHANGED <<maxScore, maxValue>>
    /\ IF elemIdx = Len(CurrentElements)
       THEN /\ currRule' = currRule + 1
            /\ elemIdx' = 0
            /\ pc' = "rule"
       ELSE /\ elemIdx' = elemIdx + 1
            /\ UNCHANGED <<pc, currRule>>
    /\ UNCHANGED <<selected, defaulted, calls>>
    /\ UNCHANGED <<context, metadata, fieldIdx, inputs>>

\* The test of line 54 as "maxValue === undefined && ruleSet.defaultValue".
NeedsDefaultIfUndefined(value, default) ==
    value.k = "undefined" /\ default # "none"

\* !maxValue && ruleSet.defaultValue (line 54).
NeedsDefault(value, default) == ~Truthy(value) /\ default # "none"

\* Lines 54-56.
ApplyDefault ==
    /\ pc = "default"
    /\ selected' = maxValue
    /\ IF NeedsDefault(maxValue, CurrentRuleSet.default)
       THEN LET r == RunDefault(CurrentRuleSet.default, context)
            IN /\ defaulted' = TRUE
               /\ IF r.ok
                  THEN maxValue' = r.val /\ pc' = "check"
                  ELSE pc' = "threw" /\ UNCHANGED maxValue
       ELSE /\ pc' = "check"
            /\ UNCHANGED <<maxValue, defaulted>>
    /\ UNCHANGED <<currRule, elemIdx, score, maxScore, calls>>
    /\ UNCHANGED <<context, metadata, fieldIdx, inputs>>

\* metadata[ruleSetKey] = result (line 203) and the next key (line 199).
Store(result) ==
    /\ metadata' = Append(metadata, <<CurrentRuleSet.key, result>>)
    /\ fieldIdx' = fieldIdx + 1
    /\ pc' = IF fieldIdx = Len(RuleSetsInUse) THEN "return" ELSE "field"

\* Line 58: without a value the evaluator returns undefined.
CheckValue ==
    /\ pc = "check"
    /\ IF Truthy(maxValue)
       THEN /\ pc' = "process"
            /\ UNCHANGED <<metadata, fieldIdx>>
       ELSE Store(Undefined)
    /\ UNCHANGED <<engine, context, inputs>>

\* Lines 60-62 for one processor.
ApplyProcessor ==
    /\ pc = "process"
    /\ Len(calls) < Len(CurrentRuleSet.processors)
    /\ LET p == CurrentRuleSet.processors[Len(calls) + 1]
           r == RunProcessor(p, maxValue, context)
       IN /\ calls' = Append(calls, [proc |-> p, arg |-> maxValue,
                                     ctx |-> context, ok |-> r.ok])
          /\ IF r.ok
             THEN maxValue' = r.val /\ UNCHANGED pc
             ELSE pc' = "threw" /\ UNCHANGED maxValue
    /\ UNCHANGED <<currRule, elemIdx, score, maxScore, selected, defaulted>>
    /\ UNCHANGED <<context, metadata, fieldIdx, inputs>>

\* Lines 65-67 without the trim of the end of the string.
TrimIfStringLeft(value) ==
    IF IsStr(value) THEN Str(TrimLeft(StrOf(value))) ELSE value

\* Lines 65-67.
TrimIfString(value) == IF IsStr(value) THEN Str(Trim(StrOf(value))) ELSE value

\* Lines 65-69 and 203.
FinishField ==
    /\ pc = "process"
    /\ Len(calls) = Len(CurrentRuleSet.processors)
    /\ Store(TrimIfString(maxValue))
    /\ UNCHANGED <<engine, context, inputs>>

\* Line 206.
Return ==
    /\ pc = "return"
    /\ pc' = "done"
    /\ UNCHANGED <<engine, context, metadata, fieldIdx, inputs>>

Next ==
    \/ Start
    \/ BeginField
    \/ QueryRule
    \/ ScoreElement
    \/ ApplyDefault
    \/ CheckValue
    \/ ApplyProcessor
    \/ FinishField
    \/ Return

Spec == Init /\ [][Next]_vars

\* ------------------------------------------------------------------------
\* getProvider called on its own.
\* ------------------------------------------------------------------------
InitProvider ==
    /\ labels \in Hosts
    /\ provider = <<>>
    /\ pc = "provider"
    /\ doc = <<>>
    /\ location = NoLocation
    /\ customRuleSets = NoTable
    /\ Idle

CallGetProvider ==
    /\ pc = "provider"
    /\ provider' = getProvider(Join(labels, <<".">>))
    /\ pc' = "provided"
    /\ UNCHANGED <<doc, location, customRuleSets, labels, context, metadata,
                   fieldIdx, engine>>

NextProvider == CallGetProvider

SpecProvider == InitProvider /\ [][NextProvider]_vars

\* ------------------------------------------------------------------------
\* The evaluator as a function of its inputs (lines 23-71): what
\* buildRuleSet(ruleSet)(doc, context) returns, or that it throws.
\* ------------------------------------------------------------------------
\* The candidates in the order lines 27 and 33 visit them: rule order, then
\* query order.
RECURSIVE CandidatesFrom(_, _, _)
CandidatesFrom(rs, els, i) ==
    IF i > Len(rs.rules) THEN <<>>
    ELSE LET found == querySelectorAll(els, rs.rules[i].query)
         IN [j \in 1..Len(found) |-> [rule |-> i, el |-> found[j]]]
            \o CandidatesFrom(rs, els, i + 1)
Candidates(rs, els) == CandidatesFrom(rs, els, 1)

\* The score of a candidate after the scorers (lines 34-44).
FinalScore(rs, c) ==
    ApplyScorers(rs.scorers, c.el, BaseScore(Len(rs.rules), c.rule))
Extraction(rs, c) == RunHandler(rs.rules[c.rule].handler, c.el)

\* Lines 46-49 over the candidates, from the incumbent best.
RECURSIVE Scan(_, _, _)
Scan(rs, cands, best) ==
    IF cands = <<>> THEN best
    ELSE Scan(rs, Tail(cands),
              IF Beats(FinalScore(rs, Head(cands)), best.score)
              THEN [score |-> FinalScore(rs, Head(cands)),
                    value |-> Extraction(rs, Head(cands))]
              ELSE best)

\* Lines 59-63.
RECURSIVE RunProcessors(_, _, _)
RunProcessors(procs, value, ctx) ==
    IF procs = <<>> THEN Ret(value)
    ELSE LET r == RunProcessor(Head(procs), value, ctx)
         IN IF r.ok THEN RunProcessors(Tail(procs), r.val, ctx) ELSE Threw

Evaluate(rs, els, ctx) ==
    LET sel == Scan(rs, Candidates(rs, els), [score |-> 0, value |-> Undefined]).value
        dv == IF NeedsDefault(sel, rs.default) THEN RunDefault(rs.default, ctx) ELSE Ret(sel)
    IN IF ~dv.ok THEN Threw
       ELSE IF ~Truthy(dv.val) THEN Ret(Undefined)
       ELSE LET p == RunProcessors(rs.processors, dv.val, ctx)
            IN IF p.ok THEN Ret(TrimIfString(p.val)) ELSE Threw

\* ------------------------------------------------------------------------
\* Properties.
\* ------------------------------------------------------------------------
\* The rule loop of the current field has ended: maxValue is the selection.
LoopDone == pc = "default"
InLoop == pc \in {"rule", "element"}

\* The reference transform of C7, on the labels of the host.
IsWwwLike(label) ==
    /\ MatchAt(label, <<"w","w","w">>, 1)
    /\ \A i \in 1..Len(label) : label[i] \in Alnum
WithoutLeadingWww(ls) ==
    IF Len(ls) >= 2 /\ IsWwwLike(ls[1]) THEN Tail(ls) ELSE ls
WithoutCoSuffix(ls) ==
    IF Len(ls) >= 3 /\ ls[Len(ls) - 1] = <<"c","o">>
    THEN SubSeq(ls, 1, Len(ls) - 2) \o <<ls[Len(ls)]>> ELSE ls
ReferenceProvider(ls) ==
    Join(DropLast(WithoutCoSuffix(WithoutLeadingWww(ls))), <<" ">>)
\* C7: getProvider(host) equals the reference transform on the host's
\* labels: drop a www-like first label, drop a "co" label standing right
\* before the last label, drop the last label, join with spaces.
C7_ProviderIsReference ==
    pc = "provided" => provider = ReferenceProvider(labels)

\* C8: a matched element whose extraction is null leaves a value recorded
\* earlier in place.
C8_NullExtractionKeepsValue ==
    [][(/\ pc = "element"
        /\ Truthy(maxValue)
        /\ ~IsStr(RunHandler(CurrentRule.handler, CurrentElement)))
       => maxValue' = maxValue]_vars

\* The composition C9 states: every number replaces the score.
RECURSIVE ComposeReplacingAll(_, _, _)
ComposeReplacingAll(scorers, el, s) ==
    IF scorers = <<>> THEN s
    ELSE LET r == RunScorer(Head(scorers), el, s)
         IN ComposeReplacingAll(Tail(scorers), el,
                                IF r.k = "number" THEN r.n ELSE s)
\* C9: the candidate's score is the composition of the scorers from the
\* base score, where every number a scorer returns (0 and negative numbers
\* too) replaces the score and only undefined leaves it.
C9_EveryNumberReplaces ==
    [][pc = "element" =>
         score' = ComposeReplacingAll(CurrentRuleSet.scorers, CurrentElement,
                      Len(CurrentRuleSet.rules) - (currRule - 1))]_vars

\* The inputs C6 calls degenerate, and a field that is its default or absent.
NoSelectorMatches ==
    \A f \in 1..Len(metadataRuleSets) :
        Candidates(metadataRuleSets[f], Elements(doc)) = <<>>
UsableHref == IsStr(location.href) /\ ParseAbsolute(StrOf(location.href)).ok
DegenerateInput ==
    /\ ~customRuleSets.given
    /\ NoSelectorMatches \/ ~location.present \/ ~UsableHref
\* The default of a rule set as the evaluator returns it.
ReturnedDefault(rs, ctx) ==
    IF rs.default = "none" \/ ~RunDefault(rs.default, ctx).ok THEN Threw
    ELSE LET p == RunProcessors(rs.processors, RunDefault(rs.default, ctx).val, ctx)
         IN IF p.ok THEN Ret(TrimIfString(p.val)) ELSE Threw
DefaultOrAbsent(entry, rs) ==
    \/ entry[2] = Undefined
    \/ /\ ReturnedDefault(rs, context).ok
       /\ entry[2] = ReturnedDefault(rs, context).val
\* C6: with the built-in table, a document no selector matches, or a
\* location that is missing or has no usable href, does not make the call
\* fail: it returns, and every field is its default value or absent.
C6_DegenerateInputsDoNotFail ==
    DegenerateInput =>
        /\ pc # "threw"
        /\ pc = "done" =>
             \A i \in 1..Len(metadata) : DefaultOrAbsent(metadata[i], metadataRuleSets[i])

\* C6 as amended: with the built-in table and a document no selector
\* matches, the call returns when location.href is an absolute URL of the
\* form scheme://host/path, every field being its default (after the
\* processors and the trim) or absent, and throws when the location is
\* missing or its href is no such URL.
C6_EmptyDocument ==
    (~customRuleSets.given /\ NoSelectorMatches) =>
        IF location.present /\ UsableHref
        THEN /\ pc # "threw"
             /\ pc = "done" =>
                  \A i \in 1..Len(metadata) :
                      DefaultOrAbsent(metadata[i], metadataRuleSets[i])
        ELSE pc # "done"
C6_Witness ==
    /\ pc = "done"
    /\ ~customRuleSets.given
    /\ doc = <<>>
    /\ location = Loc(Str(GoodUrl))
    /\ metadata[1][2] = Undefined
    /\ metadata[2][2] = Str(<<"h","t","t","p","s",":","/","/","a",".","c","o","m","/","x","/","f","a","v","i","c","o","n",".","i","c","o">>)
    /\ metadata[8][2] = Str(GoodUrl)
    /\ metadata[9][2] = Str(<<"a">>)

\* The case of C1: no scorers, rules 0 and 1 both matching.
FirstRuleElements == querySelectorAll(Elements(doc), CurrentRuleSet.rules[1].query)
SecondRuleElements == querySelectorAll(Elements(doc), CurrentRuleSet.rules[2].query)
BothRulesMatch ==
    /\ LoopDone
    /\ CurrentRuleSet.scorers = <<>>
    /\ Len(CurrentRuleSet.rules) >= 2
    /\ FirstRuleElements # <<>>
    /\ SecondRuleElements # <<>>
\* C1: without scorers, when rules 0 and 1 both match, the value selected
\* is the extraction from the first element of rule 0 in query order,
\* wherever the elements of rule 1 stand in the document.
C1_FirstRuleWins ==
    BothRulesMatch =>
        maxValue = RunHandler(CurrentRuleSet.rules[1].handler, FirstRuleElements[1])
C1_Witness ==
    /\ BothRulesMatch
    /\ Matches(Element(doc[1]), CurrentRuleSet.rules[2].query)
    /\ Truthy(RunHandler(CurrentRuleSet.rules[2].handler, Element(doc[1])))
    /\ Truthy(maxValue)

\* The case of C2: the icon candidates are two sized link[rel=icon] elements.
IconCandidates == Candidates(CurrentRuleSet, Elements(doc))
SizesOf(c) == getAttribute(c.el, "sizes")
TwoSizedIcons ==
    /\ LoopDone
    /\ ~customRuleSets.given
    /\ CurrentRuleSet.key = "icon"
    /\ Len(IconCandidates) = 2
    /\ \A i \in 1..2 :
          /\ IconCandidates[i].rule = 3
          /\ getAttribute(IconCandidates[i].el, "rel") = Str(<<"i","c","o","n">>)
    /\ {SizesOf(IconCandidates[1]), SizesOf(IconCandidates[2])}
          = {Str(<<"1","6","x","1","6">>), Str(<<"3","2","x","3","2">>)}
\* C2: for the built-in icon field, when the icon candidates are two
\* link[rel=icon] elements with sizes 16x16 and 32x32, the href of the
\* 32x32 element is selected, in both document orders.
C2_LargerIconWins ==
    TwoSizedIcons =>
        \A i \in 1..2 :
            SizesOf(IconCandidates[i]) = Str(<<"3","2","x","3","2">>)
                => maxValue = getAttribute(IconCandidates[i].el, "href")
C2_Witness ==
    /\ TwoSizedIcons
    /\ SizesOf(IconCandidates[1]) = Str(<<"1","6","x","1","6">>)
    /\ maxValue = Str(<<"/","l",".","p","n","g">>)

\* The state right after lines 54-56.
AfterDefault == pc = "check"
\* C3: after the rule loop the default function is called, and its result
\* becomes the value, exactly when no non-empty value was selected and the
\* rule set declares a default; otherwise the selected value stands.  For
\* the built-in url field with no matching element the value that goes on
\* to the processors is context.url.
C3_DefaultIffNothingSelected ==
    AfterDefault =>
        /\ defaulted <=> (~Truthy(selected) /\ CurrentRuleSet.default # "none")
        /\ Truthy(selected) => (~defaulted /\ maxValue = selected)
        /\ defaulted => maxValue = RunDefault(CurrentRuleSet.default, context).val
        /\ ~defaulted => maxValue = selected
        /\ (/\ ~customRuleSets.given
            /\ CurrentRuleSet.key = "url"
            /\ Candidates(CurrentRuleSet, Elements(doc)) = <<>>)
           => maxValue = context.url
C3_Witness ==
    /\ AfterDefault
    /\ ~customRuleSets.given
    /\ CurrentRuleSet.key = "url"
    /\ Candidates(CurrentRuleSet, Elements(doc)) = <<>>
    /\ doc # <<>>
    /\ defaulted
    /\ maxValue = Str(GoodUrl)

\* The field whose result line 203 has just stored, and its processor calls.
JustStored == pc \in {"field", "return", "done"} /\ Len(metadata) >= 1
StoredRuleSet == RuleSetsInUse[Len(metadata)]
StoredResult == metadata[Len(metadata)][2]
\* The value lines 54-56 leave in maxValue.
Entering ==
    IF defaulted THEN RunDefault(StoredRuleSet.default, context).val ELSE selected
CallOutput(i) == RunProcessor(calls[i].proc, calls[i].arg, calls[i].ctx).val
\* r is s without its leading and trailing whitespace.
IsTrimOf(r, s) ==
    /\ \E i \in 1..(Len(s) + 1) : \E j \in 0..Len(s) :
          /\ r = SubSeq(s, i, j)
          /\ \A n \in 1..(i - 1) : s[n] \in WhiteSpace
          /\ \A n \in (j + 1)..Len(s) : s[n] \in WhiteSpace
    /\ r # <<>> => (r[1] \notin WhiteSpace /\ r[Len(r)] \notin WhiteSpace)
\* C4: with a non-empty value, every declared processor is applied once,
\* in declared order, each to the output of the one before and with the
\* same context, and the result, when a string, is returned without its
\* leading and trailing whitespace; without a value no processor is called
\* and the evaluator returns undefined.
C4_ProcessorsThenTrim ==
    JustStored =>
        IF Truthy(Entering)
        THEN /\ Len(calls) = Len(StoredRuleSet.processors)
             /\ \A i \in 1..Len(calls) :
                   /\ calls[i].proc = StoredRuleSet.processors[i]
                   /\ calls[i].ctx = context
                   /\ calls[i].ok
                   /\ calls[i].arg = IF i = 1 THEN Entering ELSE CallOutput(i - 1)
             /\ LET out == IF calls = <<>> THEN Entering ELSE CallOutput(Len(calls))
                IN IF IsStr(out)
                   THEN IsStr(StoredResult) /\ IsTrimOf(StrOf(StoredResult), StrOf(out))
                   ELSE StoredResult = out
        ELSE calls = <<>> /\ StoredResult = Undefined
C4_Witness ==
    /\ JustStored
    /\ Len(calls) = 2
    /\ calls[1].arg = Str(<<" ","a","-","b"," ">>)
    /\ calls[2].arg = Str(<<" ","a">>)
    /\ StoredResult = Arr(<<<<"a">>>>)

\* The rule set a key of the table in use names.
RuleSetOfKey(key) ==
    RuleSetsInUse[CHOOSE i \in 1..Len(RuleSetsInUse) : RuleSetsInUse[i].key = key]
\* C5: getMetadata returns one entry per key of the table in use, each the
\* result of evaluating that key's rule set alone on the same document and
\* context, whatever the order of the keys; an absent field does not stop
\* the others.
C5_RecordOfIndependentFields ==
    pc = "done" =>
        /\ Len(metadata) = Len(RuleSetsInUse)
        /\ {metadata[i][1] : i \in 1..Len(metadata)}
              = {RuleSetsInUse[i].key : i \in 1..Len(RuleSetsInUse)}
        /\ \A i \in 1..Len(metadata) :
              /\ Evaluate(RuleSetOfKey(metadata[i][1]), Elements(doc), context).ok
              /\ metadata[i][2] =
                    Evaluate(RuleSetOfKey(metadata[i][1]), Elements(doc), context).val
C5_Witness ==
    /\ pc = "done"
    /\ customRuleSets.given
    /\ Len(metadata) = 2
    /\ metadata[1] = <<"g", Undefined>>
    /\ metadata[2][1] = "f"
    /\ metadata[2][2] # Undefined

\* One step of the rule loop, and the first candidate with the highest score.
IncumbentStep ==
    InLoop =>
        /\ maxScore' >= maxScore
        /\ (maxScore' # maxScore \/ maxValue' # maxValue)
              => (pc = "element" /\ score' > maxScore /\ maxScore' = score')
        /\ (pc = "element" /\ score' <= maxScore) => UNCHANGED <<maxScore, maxValue>>
LoopCandidates == Candidates(CurrentRuleSet, Elements(doc))
HighestScore ==
    CHOOSE s \in {FinalScore(CurrentRuleSet, LoopCandidates[i]) : i \in 1..Len(LoopCandidates)} :
        \A j \in 1..Len(LoopCandidates) : FinalScore(CurrentRuleSet, LoopCandidates[j]) <= s
FirstHighest ==
    LoopCandidates[CHOOSE i \in 1..Len(LoopCandidates) :
        /\ FinalScore(CurrentRuleSet, LoopCandidates[i]) = HighestScore
        /\ \A j \in 1..(i - 1) : FinalScore(CurrentRuleSet, LoopCandidates[j]) < HighestScore]
SelectedIsFirstHighest ==
    (LoopDone /\ LoopCandidates # <<>>)
        => maxValue = Extraction(CurrentRuleSet, FirstHighest)
\* C10: during the rule loop maxScore never decreases, and maxScore and
\* maxValue change only at a candidate whose final score is strictly
\* greater than maxScore (an equal score changes nothing); so, when the
\* loop ends, the value selected is the extraction from the first
\* candidate, in rule order and then query order, among those with the
\* highest final score.
C10_FirstHighestAlways ==
    [][IncumbentStep]_vars /\ []SelectedIsFirstHighest

\* The selection when the rule loop ends, given that maxScore starts at 0.
SelectedIsFirstHighestAboveZero ==
    LoopDone =>
        IF LoopCandidates # <<>> /\ HighestScore > 0
        THEN /\ maxScore = HighestScore
             /\ maxValue = Extraction(CurrentRuleSet, FirstHighest)
        ELSE maxScore = 0 /\ maxValue = Undefined
\* C10 as amended: the same, the selection being the first candidate with
\* the highest final score when that score is greater than 0, the initial
\* maxScore; when no candidate scores more than 0 nothing is selected.
C10_FirstHighestAboveZero ==
    [][IncumbentStep]_vars /\ []SelectedIsFirstHighestAboveZero
C10_Witness ==
    /\ LoopDone
    /\ Len(LoopCandidates) = 2
    /\ FinalScore(CurrentRuleSet, LoopCandidates[1]) = 3
    /\ FinalScore(CurrentRuleSet, LoopCandidates[2]) = 3
    /\ LoopCandidates[2].rule = 2
    /\ Element(doc[1]) = LoopCandidates[2].el
    /\ Extraction(CurrentRuleSet, LoopCandidates[1]) # Extraction(CurrentRuleSet, LoopCandidates[2])
    /\ maxValue = Extraction(CurrentRuleSet, LoopCandidates[1])

====
